---- MODULE Spec2Model ----
(***************************************************************************)
(* Model of the anth command line client (src/anth/src/main.rs): the       *)
(* credential resolver, the transcript store, the API client, the          *)
(* interactive session loop and the two one-shot runners.                  *)
(*                                                                         *)
(* Text is modelled as a sequence of one-character strings, so that        *)
(* trimming, JSON escaping and JSON parsing are computed character by      *)
(* character as the code computes them.                                    *)
(***************************************************************************)
EXTENDS Integers, Sequences, FiniteSets, TLC

(***************************************************************************)
(* Text helpers                                                            *)
(***************************************************************************)

\* str::trim / JSON whitespace: the white-space characters of the model's alphabet
IsSpace(c) == c \in {" ", "\n", "\t", "\r"}

RECURSIVE TrimStart(_)
TrimStart(s) ==
    IF s = <<>> THEN <<>>
    ELSE IF IsSpace(Head(s)) THEN TrimStart(Tail(s)) ELSE s

RECURSIVE TrimEnd(_)
TrimEnd(s) ==
    IF s = <<>> THEN <<>>
    ELSE IF IsSpace(s[Len(s)]) THEN TrimEnd(SubSeq(s, 1, Len(s) - 1)) ELSE s

\* str::trim as used on the input line (196), the diff (289) and the reply (310)
Trim(s) == TrimEnd(TrimStart(s))

\* the string literals of the program, as character sequences
QuitCmd == <<"q", "u", "i", "t">>
ExitCmd == <<"e", "x", "i", "t">>
ClearCmd == <<"c", "l", "e", "a", "r">>
UserRole == <<"u", "s", "e", "r">>
AssistantRole == <<"a", "s", "s", "i", "s", "t", "a", "n", "t">>
RoleField == <<"r", "o", "l", "e">>
ContentField == <<"c", "o", "n", "t", "e", "n", "t">>

\* struct Message { role, content }
Message(r, c) == [role |-> r, content |-> c]

(***************************************************************************)
(* serde_json::to_string_pretty on &[Message]                              *)
(***************************************************************************)

\* the escape serde_json writes for one character of a string
BadEscapeChar(c) ==
    CASE c = "\"" -> <<"\\", "\"">>
      [] c = "\n" -> <<"\\", "n">>
      [] c = "\t" -> <<"\\", "t">>
      [] c = "\r" -> <<"\\", "r">>
      [] OTHER    -> <<c>>

EscapeChar(c) ==
    CASE c = "\"" -> <<"\\", "\"">>
      [] c = "\\" -> <<"\\", "\\">>
      [] c = "\n" -> <<"\\", "n">>
      [] c = "\t" -> <<"\\", "t">>
      [] c = "\r" -> <<"\\", "r">>
      [] OTHER    -> <<c>>

RECURSIVE Escape(_)
Escape(s) == IF s = <<>> THEN <<>> ELSE EscapeChar(Head(s)) \o Escape(Tail(s))

\* a JSON string literal
JsonString(s) == <<"\"">> \o Escape(s) \o <<"\"">>

\* one Message as the pretty formatter writes it inside an array (indent 2)
JsonMessage(m) ==
    <<" ", " ", "{", "\n">>
    \o <<" ", " ", " ", " ">> \o JsonString(RoleField) \o <<":", " ">>
    \o JsonString(m.role) \o <<",", "\n">>
    \o <<" ", " ", " ", " ">> \o JsonString(ContentField) \o <<":", " ">>
    \o JsonString(m.content) \o <<"\n">>
    \o <<" ", " ", "}">>

RECURSIVE JsonElements(_)
JsonElements(ms) ==
    IF Len(ms) = 1 THEN JsonMessage(ms[1])
    ELSE JsonMessage(Head(ms)) \o <<",", "\n">> \o JsonElements(Tail(ms))

\* serde_json::to_string_pretty(messages) (156)
ToStringPretty(ms) ==
    IF ms = <<>> THEN <<"[", "]">>
    ELSE <<"[", "\n">> \o JsonElements(ms) \o <<"\n", "]">>

(***************************************************************************)
(* serde_json::from_str::<Vec<Message>>                                    *)
(***************************************************************************)

\* index of the first non-white-space character at or after i (Len+1 if none)
RECURSIVE SkipWs(_, _)
SkipWs(s, i) ==
    IF i > Len(s) THEN i
    ELSE IF IsSpace(s[i]) THEN SkipWs(s, i + 1) ELSE i

ParseErr == [ok |-> FALSE, pos |-> 0, val |-> <<>>]

\* the character an escape sequence \c stands for; "" when c is no escape
Unescape(c) ==
    CASE c = "\"" -> "\""
      [] c = "\\" -> "\\"
      [] c = "/"  -> "/"
      [] c = "n"  -> "\n"
      [] c = "t"  -> "\t"
      [] c = "r"  -> "\r"
      [] OTHER    -> ""

\* the body of a string literal from position i (just after the opening quote)
RECURSIVE ParseStringBody(_, _, _)
ParseStringBody(s, i, acc) ==
    IF i > Len(s) THEN ParseErr
    ELSE IF s[i] = "\"" THEN [ok |-> TRUE, pos |-> i + 1, val |-> acc]
    ELSE IF s[i] = "\\" THEN
        IF i + 1 > Len(s) \/ Unescape(s[i + 1]) = "" THEN ParseErr
        ELSE ParseStringBody(s, i + 2, Append(acc, Unescape(s[i + 1])))
    ELSE IF s[i] \in {"\n", "\t", "\r"} THEN ParseErr
    ELSE ParseStringBody(s, i + 1, Append(acc, s[i]))

\* a string literal at position i
ParseString(s, i) ==
    IF i > Len(s) \/ s[i] # "\"" THEN ParseErr ELSE ParseStringBody(s, i + 1, <<>>)

NoField == <<"<none>">>

\* the members of an object from position i (at a key), fields seen so far in r, c
RECURSIVE ParseMembers(_, _, _, _)
ParseMembers(s, i, r, c) ==
    LET k  == ParseString(s, i)
        j  == SkipWs(s, k.pos)
        v  == ParseString(s, SkipWs(s, j + 1))
        e  == SkipWs(s, v.pos)
        r2 == IF k.val = RoleField THEN v.val ELSE r
        c2 == IF k.val = ContentField THEN v.val ELSE c
    IN  IF ~k.ok \/ j > Len(s) \/ s[j] # ":" THEN ParseErr
        ELSE IF ~v.ok \/ e > Len(s) THEN ParseErr
        ELSE IF (k.val = RoleField /\ r # NoField) \/ (k.val = ContentField /\ c # NoField)
            THEN ParseErr
        ELSE IF s[e] = "," THEN ParseMembers(s, SkipWs(s, e + 1), r2, c2)
        ELSE IF s[e] = "}" THEN
            IF r2 = NoField \/ c2 = NoField THEN ParseErr
            ELSE [ok |-> TRUE, pos |-> e + 1, val |-> Message(r2, c2)]
        ELSE ParseErr

\* one Message (a JSON object with string members role and content) at position i
ParseMessage(s, i) ==
    IF i > Len(s) \/ s[i] # "{" THEN ParseErr
    ELSE LET j == SkipWs(s, i + 1)
         IN  IF j <= Len(s) /\ s[j] = "}" THEN ParseErr
             ELSE ParseMembers(s, j, NoField, NoField)

\* the elements of the array from position i (at an element)
RECURSIVE ParseElements(_, _, _)
ParseElements(s, i, acc) ==
    LET m == ParseMessage(s, i)
        e == SkipWs(s, m.pos)
    IN  IF ~m.ok \/ e > Len(s) THEN ParseErr
        ELSE IF s[e] = "," THEN ParseElements(s, SkipWs(s, e + 1), Append(acc, m.val))
        ELSE IF s[e] = "]" THEN [ok |-> TRUE, pos |-> e + 1, val |-> Append(acc, m.val)]
        ELSE ParseErr

\* serde_json::from_str(&content) for Vec<Message> (148)
FromStr(s) ==
    LET i == SkipWs(s, 1)
    IN  IF i > Len(s) \/ s[i] # "[" THEN ParseErr
        ELSE LET j == SkipWs(s, i + 1)
                 a == IF j <= Len(s) /\ s[j] = "]"
                      THEN [ok |-> TRUE, pos |-> j + 1, val |-> <<>>]
                      ELSE ParseElements(s, j, <<>>)
             IN  IF ~a.ok THEN ParseErr
                 ELSE IF SkipWs(s, a.pos) <= Len(s) THEN ParseErr
                 ELSE a

(***************************************************************************)
(* Bounds and input sets                                                   *)
(***************************************************************************)

\* the processes: one in Spec, two sessions sharing the transcript file in SpecShared
Procs == {1, 2}

\* number of chat turns (non-command lines) read in one run of Spec
MaxTurns == 2

\* number of chat turns read in one run of SpecCred
MaxCredTurns == 1

\* number of chat turns read in one run of SpecShared, over both sessions
MaxSharedTurns == 1

\* the raw lines the line editor can return
Lines ==
    { <<>>,
      <<" ">>,
      QuitCmd,
      <<" ">> \o ExitCmd,
      ClearCmd \o <<" ">>,
      <<"h", "i">>,
      <<" ", "\"", "\\", " ">> }

\* what rl.readline returns (193): a line, or one of the ReadlineError kinds
Inputs ==
    {[kind |-> "line", text |-> l] : l \in Lines}
    \cup {[kind |-> k, text |-> <<>>] : k \in {"interrupted", "eof", "error"}}

\* struct Content { text }
Content(t) == [text |-> t]

\* the bodies the remote can reply with: raw text, and for a body that is
\* an AnthropicResponse its content blocks
Bodies ==
    { [shape |-> "other", raw |-> "overloaded", content |-> <<>>],
      [shape |-> "content", raw |-> "json0", content |-> <<>>],
      [shape |-> "content", raw |-> "json1", content |-> <<Content(<<"o", "k">>)>>],
      [shape |-> "content", raw |-> "json2",
       content |-> <<Content(<<"\"", "\n">>), Content(<<"x">>)>>] }

NoBody == [shape |-> "other", raw |-> "", content |-> <<>>]

\* the outcomes of one HTTP exchange: the transport fails before a status
\* arrives ("transport"), or a status arrives and reading the body works
\* ("status") or fails ("body_lost")
Responses ==
    {[kind |-> "transport", success |-> FALSE, body |-> NoBody]}
    \cup {[kind |-> "status", success |-> TRUE, body |-> d] : d \in Bodies}
    \cup {[kind |-> "status", success |-> FALSE, body |-> d] :
            d \in {b \in Bodies : b.raw \in {"overloaded", "json1"}}}
    \cup {[kind |-> "body_lost", success |-> b, body |-> NoBody] : b \in BOOLEAN}

\* the outcomes of save_chat_history's file system calls: everything works;
\* get_chat_history_path (155) or the open in fs::write (157) fails, before
\* the file is touched; fs::write fails after truncating the file, with half
\* of the content written (157)
SaveOutcomes == {"ok", "path_err", "write_err"}

\* the outcomes of load_chat_history's file system calls (142, 147)
LoadOutcomes == {"ok", "path_err", "read_err"}

\* the values of ANTHROPIC_API_KEY that env::var can see (65)
EnvVars ==
    { [kind |-> "unset", val |-> ""],
      [kind |-> "notunicode", val |-> ""],
      [kind |-> "ok", val |-> ""],
      [kind |-> "ok", val |-> "sk-env"] }

\* the states of the config file (68-75)
ConfigFiles ==
    { [kind |-> "nodir", has_key |-> FALSE, api_key |-> ""],
      [kind |-> "nofile", has_key |-> FALSE, api_key |-> ""],
      [kind |-> "unreadable", has_key |-> FALSE, api_key |-> ""],
      [kind |-> "malformed", has_key |-> FALSE, api_key |-> ""],
      [kind |-> "json", has_key |-> FALSE, api_key |-> ""],
      [kind |-> "json", has_key |-> TRUE, api_key |-> ""],
      [kind |-> "json", has_key |-> TRUE, api_key |-> "sk-cfg"] }

\* the results of running one git command (162-164, 170-172)
GitOutputs ==
    { [spawn |-> FALSE, success |-> FALSE, utf8 |-> TRUE, out |-> <<>>],
      [spawn |-> TRUE, success |-> FALSE, utf8 |-> TRUE, out |-> <<>>],
      [spawn |-> TRUE, success |-> TRUE, utf8 |-> TRUE, out |-> <<>>],
      [spawn |-> TRUE, success |-> TRUE, utf8 |-> TRUE, out |-> <<" ", "\n">>],
      [spawn |-> TRUE, success |-> TRUE, utf8 |-> TRUE, out |-> <<"+", "x", "\n">>],
      [spawn |-> TRUE, success |-> TRUE, utf8 |-> FALSE, out |-> <<"?">>] }

NoGit == [spawn |-> FALSE, success |-> FALSE, utf8 |-> TRUE, out |-> <<>>]

\* the message arguments of `gen`
GenArgs == { <<"h", "i">>, <<>> }

\* the transcript files a run can start from: none, text that is not JSON,
\* an array written by hand, and files written by earlier runs
NoFile == [exists |-> FALSE, content |-> <<>>]
FileOf(chars) == [exists |-> TRUE, content |-> chars]
InitFiles ==
    { NoFile,
      FileOf(<<"{">>),
      FileOf(<<"[", "{", "\"">> \o ContentField \o <<"\"", ":", "\"", "y", "\"", ",",
               "\"">> \o RoleField \o <<"\"", ":", "\"">> \o UserRole \o <<"\"", "}", "]", "\n">>),
      FileOf(ToStringPretty(<<Message(UserRole, <<"q">>), Message(AssistantRole, <<"\\">>)>>)) }

(***************************************************************************)
(* The program's functions                                                 *)
(***************************************************************************)

Ok(v) == [ok |-> TRUE, val |-> v]
Err == [ok |-> FALSE, val |-> <<>>]

\* the config-file fallback of AnthropicClient::new (66-76): the Result of the closure
ConfigKey(cfg) ==
    IF cfg.kind = "nodir" THEN [ok |-> FALSE, val |-> ""]
    ELSE IF cfg.kind = "nofile" THEN [ok |-> TRUE, val |-> ""]
    ELSE IF cfg.kind \in {"unreadable", "malformed"} THEN [ok |-> FALSE, val |-> ""]
    ELSE [ok |-> TRUE, val |-> IF cfg.has_key THEN cfg.api_key ELSE ""]

BadResolveKeyEmpty(env, cfg) ==
    IF env.kind = "ok" /\ env.val # "" THEN env.val
    ELSE IF ConfigKey(cfg).ok THEN ConfigKey(cfg).val ELSE ""

BadResolveKey(env, cfg) ==
    IF ConfigKey(cfg).ok /\ ConfigKey(cfg).val # "" THEN ConfigKey(cfg).val
    ELSE IF env.kind = "ok" THEN env.val ELSE ""

\* the api_key computed by AnthropicClient::new (65-77)
ResolveKey(env, cfg) ==
    IF env.kind = "ok" THEN env.val
    ELSE IF ConfigKey(cfg).ok THEN ConfigKey(cfg).val ELSE ""

BadNew(env, cfg) == [ok |-> TRUE, api_key |-> ResolveKey(env, cfg)]

\* AnthropicClient::new (64-88): the client's api_key, or the error
New(env, cfg) ==
    IF ResolveKey(env, cfg) = "" THEN [ok |-> FALSE, api_key |-> ""]
    ELSE [ok |-> TRUE, api_key |-> ResolveKey(env, cfg)]

MaxTokens == 1000

\* the AnthropicRequest and headers send_message posts (91-104)
Request(key, ms) ==
    [sent |-> TRUE, key |-> key, model |-> "claude-3-sonnet-20240229",
     max_tokens |-> MaxTokens, messages |-> ms]

NoRequest ==
    [sent |-> FALSE, key |-> "", model |-> "", max_tokens |-> 0, messages |-> <<>>]

BadFirstText(content) == IF content = <<>> THEN <<>> ELSE content[Len(content)].text

\* response_data.content.first().map(|c| c.text.clone()).unwrap_or_default() (113)
FirstText(content) == IF content = <<>> THEN <<>> ELSE content[1].text

NoReply == [ok |-> FALSE, text |-> <<>>, err |-> "none"]

BadSendMessage(resp) ==
    IF resp.kind = "transport" THEN [ok |-> FALSE, text |-> <<>>, err |-> "transport"]
    ELSE IF resp.kind = "body_lost" \/ resp.body.shape # "content"
        THEN [ok |-> FALSE, text |-> <<>>, err |-> "decode"]
    ELSE [ok |-> TRUE, text |-> FirstText(resp.body.content), err |-> "none"]

\* what send_message returns for a response (105-113)
SendMessage(resp) ==
    IF resp.kind = "transport" THEN [ok |-> FALSE, text |-> <<>>, err |-> "transport"]
    ELSE IF ~resp.success THEN
        IF resp.kind = "body_lost" THEN [ok |-> FALSE, text |-> <<>>, err |-> "transport"]
        ELSE [ok |-> FALSE, text |-> <<>>, err |-> "API request failed: " \o resp.body.raw]
    ELSE IF resp.kind = "body_lost" \/ resp.body.shape # "content"
        THEN [ok |-> FALSE, text |-> <<>>, err |-> "decode"]
    ELSE [ok |-> TRUE, text |-> FirstText(resp.body.content), err |-> "none"]

BadLoadChatHistory(f, outcome) ==
    IF outcome = "path_err" THEN <<>>
    ELSE IF ~f.exists THEN <<>>
    ELSE IF FromStr(f.content).ok THEN FromStr(f.content).val ELSE <<>>

\* load_chat_history (141-152)
LoadChatHistory(f, outcome) ==
    IF outcome = "path_err" THEN <<>>
    ELSE IF outcome = "read_err" \/ ~f.exists THEN <<>>
    ELSE IF FromStr(f.content).ok THEN FromStr(f.content).val ELSE <<>>

BadSaveChatHistory(f, ms, outcome) ==
    LET content == ToStringPretty(LoadChatHistory(f, "ok") \o ms)
    IN  CASE outcome = "ok" -> [ok |-> TRUE, file |-> FileOf(content)]
          [] outcome = "path_err" -> [ok |-> FALSE, file |-> f]
          [] outcome = "write_err" ->
                [ok |-> FALSE, file |-> FileOf(SubSeq(content, 1, Len(content) \div 2))]

\* save_chat_history (154-159): its result and the file it leaves
SaveChatHistory(f, ms, outcome) ==
    LET content == ToStringPretty(ms)
    IN  CASE outcome = "ok" -> [ok |-> TRUE, file |-> FileOf(content)]
          [] outcome = "path_err" -> [ok |-> FALSE, file |-> f]
          [] outcome = "write_err" ->
                [ok |-> FALSE, file |-> FileOf(SubSeq(content, 1, Len(content) \div 2))]

\* String::from_utf8(output.stdout) (167, 175)
Utf8(o) == IF o.utf8 THEN Ok(o.out) ELSE Err

\* get_git_diff (161-180)
GetGitDiff(staged, unstaged) ==
    IF ~staged.spawn THEN Err
    ELSE IF staged.success THEN Utf8(staged)
    ELSE IF ~unstaged.spawn THEN Err
    ELSE IF unstaged.success THEN Utf8(unstaged)
    ELSE Err

BadNoChanges(diff) == diff = <<>>

\* diff.trim().is_empty() (289)
NoChanges(diff) == Trim(diff) = <<>>

\* the fixed instruction text of the commit prompt, as one chunk (296-298)
PromptTemplate == <<"Please generate a concise and descriptive commit message for the following git diff.">>

\* format!(template, diff) (296-300)
Prompt(diff) == PromptTemplate \o diff

BadIsEmptyLine(l) == FALSE

\* line.is_empty() on the trimmed line (198)
IsEmptyLine(l) == l = <<>>

BadIsQuit(l) == l = QuitCmd

\* the match arm "quit" | "exit" (203)
IsQuit(l) == l \in {QuitCmd, ExitCmd}

\* the match arm "clear" (207)
IsClear(l) == l = ClearCmd

BadAfterReply(res) == IF res.ok THEN "Reading" ELSE "Processing"

\* where the loop is once either arm of the match on send_message is done
\* (224-243): back at rl.readline, with no second call
AfterReply(res) == "Reading"

BadPushUser(ms, line) == Append(ms, Message(AssistantRole, line))

\* messages.push(Message { role: "user", content: line }) (215-218)
PushUser(ms, line) == Append(ms, Message(UserRole, line))

BadPushAssistant(ms, response) == Append(ms, Message(UserRole, response))

\* messages.push(Message { role: "assistant", content: response }) (228-231)
PushAssistant(ms, response) == Append(ms, Message(AssistantRole, response))

BadPop(ms) == ms

\* messages.pop() (241)
Pop(ms) == IF ms = <<>> THEN <<>> ELSE SubSeq(ms, 1, Len(ms) - 1)

(***************************************************************************)
(* State                                                                   *)
(***************************************************************************)

VARIABLES
    cmd,        \* cmd[p]: the subcommand process p runs ("none": p does not run)
    arg,        \* arg[p]: the message argument of `gen`
    pc,         \* pc[p]: where process p is
    exit,       \* exit[p]: the exit status of p, -1 while it runs
    environ,    \* [env, cfg]: ANTHROPIC_API_KEY and the config file
    git,        \* [staged, unstaged]: what `git diff --cached` and `git diff` give
    file,       \* the transcript file chat_history.json
    api_key,    \* api_key[p]: the credential held by p's AnthropicClient
    messages,   \* messages[p]: the in-memory transcript of start_chat
    diff,       \* diff[p]: the diff generate_commit_message works on
    request,    \* request[p]: the last request p posted
    ncalls,     \* ncalls[p]: the number of requests p has posted
    nreplies,   \* nreplies[p]: the number of send_message calls of p that have returned
    printed,    \* printed[p]: the reply text p printed last
    turns,      \* chat turns that may still be read in this run
    inputs,     \* the inputs the line editor can return in this run
    responses,  \* the responses the remote can give in this run
    ev,         \* ev[p]: what the last input of p's session was
    line,       \* line[p]: the trimmed line of p's last input
    pre,        \* pre[p]: messages[p] just before p's last input was read
    preFile,    \* preFile[p]: file just before p's last input was read
    resp,       \* resp[p]: the response to p's last request (none while it is in flight)
    result,     \* result[p]: what send_message returned for p's last request
    saveRes,    \* saveRes[p]: result of the save p attempted for its last input
    loadRes,    \* loadRes[p]: how p's load_chat_history read the file
    loaded,     \* loaded[p]: the transcript p's load_chat_history returned
    startFile,  \* startFile[p]: what the transcript file held when p loaded: whether
                \* it was a well-formed transcript (wf), and which (t, else empty)
    saved       \* the save attempts: the result of the last one, who last wrote the
                \* file, and the transcript of the last successful save while the
                \* file still holds it (not valid once a save has left it partly written)

vars == <<cmd, arg, pc, exit, environ, git, file, api_key, messages, diff, request,
          ncalls, nreplies, printed, turns, inputs, responses, ev, line, pre, preFile,
          resp, result, saveRes, loadRes, loaded, startFile, saved>>

NoResponse ==
    [kind |-> "none", success |-> FALSE, body |-> NoBody]

NoSaved == [valid |-> FALSE, t |-> <<>>, by |-> 0, last |-> "none"]

\* what a save attempt of p does to the record of saves
SavedAfter(p, old, new, ms, outcome) ==
    IF outcome = "ok" THEN [valid |-> TRUE, t |-> ms, by |-> p, last |-> "ok"]
    ELSE IF outcome = "path_err" THEN [saved EXCEPT !.last = "err"]
    ELSE [valid |-> FALSE, t |-> <<>>, by |-> p, last |-> "err"]

\* the state common to every start: nothing has run yet
InitCommon ==
    /\ pc = [p \in Procs |->
                CASE cmd[p] = "commit" -> "diff"
                  [] cmd[p] \in {"start", "gen"} -> "new"
                  [] OTHER -> "idle"]
    /\ exit = [p \in Procs |-> -1]
    /\ api_key = [p \in Procs |-> ""]
    /\ messages = [p \in Procs |-> <<>>]
    /\ diff = [p \in Procs |-> <<>>]
    /\ request = [p \in Procs |-> NoRequest]
    /\ ncalls = [p \in Procs |-> 0]
    /\ nreplies = [p \in Procs |-> 0]
    /\ printed = [p \in Procs |-> <<"<none>">>]
    /\ ev = [p \in Procs |-> "none"]
    /\ line = [p \in Procs |-> <<>>]
    /\ pre = [p \in Procs |-> <<>>]
    /\ preFile = [p \in Procs |-> NoFile]
    /\ resp = [p \in Procs |-> NoResponse]
    /\ result = [p \in Procs |-> NoReply]
    /\ saveRes = [p \in Procs |-> "none"]
    /\ loadRes = [p \in Procs |-> "none"]
    /\ loaded = [p \in Procs |-> <<>>]
    /\ startFile = [p \in Procs |-> [wf |-> FALSE, t |-> <<>>]]
    /\ saved = NoSaved

\* process 1 runs one subcommand, process 2 does not run
InitOne ==
    /\ \E c \in {"start", "gen", "commit"} : cmd = [p \in Procs |-> IF p = 1 THEN c ELSE "none"]
    /\ arg \in [Procs -> GenArgs]
    /\ arg[2] = <<>>
    /\ cmd[1] # "gen" => arg[1] = <<>>
    /\ git \in [staged : GitOutputs, unstaged : GitOutputs]
    /\ cmd[1] # "commit" => git = [staged |-> NoGit, unstaged |-> NoGit]
    /\ file \in InitFiles
    /\ InitCommon

\* the credential environments of Spec: the key in the environment, and no key
SomeEnviron ==
    { e \in [env : EnvVars, cfg : ConfigFiles] :
        \/ e.env.val = "sk-env" /\ e.cfg.kind = "nofile"
        \/ e.env.kind = "unset" /\ e.cfg.kind = "nofile" }

\* the inputs of Spec and SpecCred: every kind of input, with one chat line
SomeInputs == {i \in Inputs : i.text # <<"h", "i">>}

\* one process runs one subcommand
Init ==
    /\ InitOne
    /\ environ \in SomeEnviron
    /\ turns = MaxTurns
    /\ inputs = SomeInputs
    /\ responses = Responses

\* one process runs one subcommand in any credential environment
InitCred ==
    /\ InitOne
    /\ environ \in [env : EnvVars, cfg : ConfigFiles]
    /\ turns = MaxCredTurns
    /\ inputs = SomeInputs
    /\ responses = Responses

\* the inputs and responses of SpecShared: a chat line, clear and quit;
\* a transport failure and a reply
SharedInputs ==
    {i \in Inputs : i.kind = "line" /\ i.text \in {QuitCmd, ClearCmd \o <<" ">>, <<" ", "\"", "\\", " ">>}}

SharedResponses ==
    {r \in Responses : r.kind = "transport" \/ (r.success /\ r.body.raw = "json2")}

\* a chat session and a second process running any subcommand share the
\* transcript file
InitShared ==
    /\ cmd \in {c \in [Procs -> {"start", "gen", "commit"}] : c[1] = "start"}
    /\ arg = [p \in Procs |-> IF cmd[p] = "gen" THEN <<"h", "i">> ELSE <<>>]
    /\ environ = [env |-> [kind |-> "ok", val |-> "sk-env"],
                  cfg |-> [kind |-> "nofile", has_key |-> FALSE, api_key |-> ""]]
    /\ git \in {g \in [staged : GitOutputs, unstaged : GitOutputs] :
                  /\ g.unstaged = NoGit
                  /\ \/ g.staged = NoGit /\ \A p \in Procs : cmd[p] # "commit"
                     \/ g.staged.out = <<"+", "x", "\n">> /\ \E p \in Procs : cmd[p] = "commit"}
    /\ file \in {f \in InitFiles : ~f.exists \/ Len(LoadChatHistory(f, "ok")) = 2}
    /\ turns = MaxSharedTurns
    /\ inputs = SharedInputs
    /\ responses = SharedResponses
    /\ InitCommon

(***************************************************************************)
(* Actions                                                                 *)
(***************************************************************************)

\* process p ends with the given status
Finish(p, status) ==
    /\ pc' = [pc EXCEPT ![p] = "done"]
    /\ exit' = [exit EXCEPT ![p] = status]

\* generate_commit_message up to the client (287-292): get_git_diff()? and
\* the no-changes exit
CommitDiff(p) ==
    /\ pc[p] = "diff"
    /\ LET d == GetGitDiff(git.staged, git.unstaged)
       IN  IF ~d.ok \/ NoChanges(d.val)
           THEN /\ Finish(p, 1)
                /\ UNCHANGED diff
           ELSE /\ pc' = [pc EXCEPT ![p] = "new"]
                /\ diff' = [diff EXCEPT ![p] = d.val]
                /\ UNCHANGED exit
    /\ UNCHANGED <<cmd, arg, environ, git, file, api_key, messages, request, ncalls,
                   nreplies, printed, turns, inputs, responses, ev, line, pre, preFile,
                   resp, result, saveRes, loadRes, loaded, startFile, saved>>

\* AnthropicClient::new()? at the head of each command (183, 266, 294)
NewClient(p) ==
    /\ pc[p] = "new"
    /\ LET c == New(environ.env, environ.cfg)
       IN  IF ~c.ok
           THEN /\ Finish(p, 1)
                /\ UNCHANGED api_key
           ELSE /\ api_key' = [api_key EXCEPT ![p] = c.api_key]
                /\ pc' = [pc EXCEPT ![p] = IF cmd[p] = "start" THEN "open" ELSE "send"]
                /\ UNCHANGED exit
    /\ UNCHANGED <<cmd, arg, environ, git, file, messages, diff, request, ncalls,
                   nreplies, printed, turns, inputs, responses, ev, line, pre, preFile,
                   resp, result, saveRes, loadRes, loaded, startFile, saved>>

\* start_chat before the loop (184-190): Editor::new()? and load_chat_history()
OpenSession(p) ==
    /\ pc[p] = "open"
    /\ \E editor \in BOOLEAN, outcome \in LoadOutcomes :
        /\ outcome = "ok" => file.exists
        /\ IF ~editor
           THEN /\ Finish(p, 1)
                /\ UNCHANGED <<messages, loadRes, loaded, startFile>>
           ELSE /\ messages' = [messages EXCEPT ![p] = LoadChatHistory(file, outcome)]
                /\ loaded' = [loaded EXCEPT ![p] = LoadChatHistory(file, outcome)]
                /\ startFile' = [startFile EXCEPT ![p] =
                                    [wf |-> file.exists /\ FromStr(file.content).ok,
                                     t  |-> LoadChatHistory(file, "ok")]]
                /\ loadRes' = [loadRes EXCEPT ![p] =
                                  IF outcome = "read_err" /\ ~file.exists THEN "missing"
                                  ELSE outcome]
                /\ pc' = [pc EXCEPT ![p] = "Reading"]
                /\ UNCHANGED exit
    /\ UNCHANGED <<cmd, arg, environ, git, file, api_key, diff, request, ncalls,
                   nreplies, printed, turns, inputs, responses, ev, line, pre, preFile,
                   resp, result, saveRes, saved>>

\* one pass of the loop of start_chat up to the API call (193-223)
ReadLine(p) ==
    /\ pc[p] = "Reading"
    /\ \E inp \in inputs, outcome \in SaveOutcomes :
        LET l == Trim(inp.text)
            isEmpty == inp.kind = "line" /\ IsEmptyLine(l)
            isQuit == inp.kind = "line" /\ ~IsEmptyLine(l) /\ IsQuit(l)
            isClear == inp.kind = "line" /\ ~IsEmptyLine(l) /\ ~IsQuit(l) /\ IsClear(l)
            isTurn == inp.kind = "line" /\ ~IsEmptyLine(l) /\ ~IsQuit(l) /\ ~IsClear(l)
            s == SaveChatHistory(file, <<>>, outcome)
        IN  /\ isTurn => turns > 0
            /\ ~isClear => outcome = "ok"
            /\ pre' = [pre EXCEPT ![p] = messages[p]]
            /\ preFile' = [preFile EXCEPT ![p] = file]
            /\ line' = [line EXCEPT ![p] = l]
            /\ turns' = IF isTurn THEN turns - 1 ELSE turns
            /\ CASE inp.kind # "line" ->
                      /\ ev' = [ev EXCEPT ![p] = inp.kind]
                      /\ Finish(p, 0)
                      /\ UNCHANGED <<messages, file, request, ncalls, saveRes, saved>>
                 [] isEmpty ->
                      /\ ev' = [ev EXCEPT ![p] = "empty"]
                      /\ UNCHANGED <<pc, exit, messages, file, request, ncalls, saveRes, saved>>
                 [] isQuit ->
                      /\ ev' = [ev EXCEPT ![p] = "quit"]
                      /\ Finish(p, 0)
                      /\ UNCHANGED <<messages, file, request, ncalls, saveRes, saved>>
                 [] isClear ->
                      /\ ev' = [ev EXCEPT ![p] = "clear"]
                      /\ messages' = [messages EXCEPT ![p] = <<>>]
                      /\ file' = s.file
                      /\ saved' = SavedAfter(p, file, s.file, <<>>, outcome)
                      /\ saveRes' = [saveRes EXCEPT ![p] = IF s.ok THEN "ok" ELSE "err"]
                      /\ IF s.ok THEN UNCHANGED <<pc, exit>> ELSE Finish(p, 1)
                      /\ UNCHANGED <<request, ncalls>>
                 [] isTurn ->
                      /\ ev' = [ev EXCEPT ![p] = "turn_pending"]
                      /\ messages' = [messages EXCEPT ![p] = PushUser(messages[p], l)]
                      /\ request' = [request EXCEPT ![p] =
                                        Request(api_key[p], PushUser(messages[p], l))]
                      /\ ncalls' = [ncalls EXCEPT ![p] = @ + 1]
                      /\ pc' = [pc EXCEPT ![p] = "Processing"]
                      /\ saveRes' = [saveRes EXCEPT ![p] = "none"]
                      /\ UNCHANGED <<exit, file, saved>>
            /\ resp' = [resp EXCEPT ![p] = IF isTurn THEN NoResponse ELSE @]
            /\ result' = [result EXCEPT ![p] = IF isTurn THEN NoReply ELSE @]
    /\ UNCHANGED <<cmd, arg, environ, git, api_key, diff, nreplies, printed, inputs,
                   responses, loadRes, loaded, startFile>>

\* the rest of the pass once send_message returns (224-243)
ApiReply(p) ==
    /\ pc[p] = "Processing"
    /\ \E r \in responses, outcome \in SaveOutcomes :
        LET res == SendMessage(r)
            ms  == PushAssistant(messages[p], res.text)
            s   == SaveChatHistory(file, ms, outcome)
        IN  /\ ~res.ok => outcome = "ok"
            /\ resp' = [resp EXCEPT ![p] = r]
            /\ result' = [result EXCEPT ![p] = res]
            /\ IF res.ok
               THEN /\ printed' = [printed EXCEPT ![p] = res.text]
                    /\ messages' = [messages EXCEPT ![p] = ms]
                    /\ file' = s.file
                    /\ saved' = SavedAfter(p, file, s.file, ms, outcome)
                    /\ saveRes' = [saveRes EXCEPT ![p] = IF s.ok THEN "ok" ELSE "err"]
                    /\ ev' = [ev EXCEPT ![p] = "turn_ok"]
               ELSE /\ messages' = [messages EXCEPT ![p] = Pop(messages[p])]
                    /\ ev' = [ev EXCEPT ![p] = "turn_err"]
                    /\ UNCHANGED <<printed, file, saved, saveRes>>
            /\ pc' = [pc EXCEPT ![p] = AfterReply(res)]
    /\ nreplies' = [nreplies EXCEPT ![p] = @ + 1]
    /\ UNCHANGED <<cmd, arg, exit, environ, git, api_key, diff, request, ncalls,
                   turns, inputs, responses, line, pre, preFile, loadRes, loaded, startFile>>

BadOneShotMessages(p) ==
    <<Message(UserRole, IF cmd[p] = "gen" THEN arg[p] ELSE Prompt(diff[p])),
      Message(UserRole, IF cmd[p] = "gen" THEN arg[p] ELSE Prompt(diff[p]))>>

\* the one-message transcript of a one-shot runner (268-271, 302-305)
OneShotMessages(p) ==
    <<Message(UserRole, IF cmd[p] = "gen" THEN arg[p] ELSE Prompt(diff[p]))>>

\* a one-shot runner posts its request (273, 307)
OneShotSend(p) ==
    /\ pc[p] = "send"
    /\ request' = [request EXCEPT ![p] = Request(api_key[p], OneShotMessages(p))]
    /\ ncalls' = [ncalls EXCEPT ![p] = @ + 1]
    /\ pc' = [pc EXCEPT ![p] = "wait"]
    /\ UNCHANGED <<cmd, arg, exit, environ, git, file, api_key, messages, diff,
                   nreplies, printed, turns, inputs, responses, ev, line, pre, preFile,
                   resp, result, saveRes, loadRes, loaded, startFile, saved>>

\* a one-shot runner once send_message returns (274-283, 308-318)
OneShotReply(p) ==
    /\ pc[p] = "wait"
    /\ \E r \in responses :
        LET res == SendMessage(r)
        IN  /\ resp' = [resp EXCEPT ![p] = r]
            /\ result' = [result EXCEPT ![p] = res]
            /\ IF res.ok
               THEN /\ printed' = [printed EXCEPT ![p] =
                                      IF cmd[p] = "commit" THEN Trim(res.text) ELSE res.text]
                    /\ Finish(p, 0)
               ELSE /\ Finish(p, 1)
                    /\ UNCHANGED printed
    /\ nreplies' = [nreplies EXCEPT ![p] = @ + 1]
    /\ UNCHANGED <<cmd, arg, environ, git, file, api_key, messages, diff, request,
                   ncalls, turns, inputs, responses, ev, line, pre, preFile, saveRes,
                   loadRes, loaded, startFile, saved>>

Next ==
    \E p \in Procs :
        \/ CommitDiff(p)
        \/ NewClient(p)
        \/ OpenSession(p)
        \/ ReadLine(p)
        \/ ApiReply(p)
        \/ OneShotSend(p)
        \/ OneShotReply(p)

Spec == Init /\ [][Next]_vars

SpecCred == InitCred /\ [][Next]_vars

SpecShared == InitShared /\ [][Next]_vars

(***************************************************************************)
(* Properties                                                              *)
(***************************************************************************)

\* the user message start_chat builds for the trimmed line of p's last input
UserMsg(p) == [role |-> UserRole, content |-> line[p]]

\* the transcript the file holds for a reader, when it holds one
Persisted == IF file.exists /\ FromStr(file.content).ok THEN FromStr(file.content).val ELSE <<>>
HoldsTranscript == file.exists /\ FromStr(file.content).ok

\* C1: when the API call of a turn fails, the session is back in Reading with
\* the in-memory transcript and the transcript file exactly as they were just
\* before the line was entered.
C1_RollbackOnApiFailure ==
    \A p \in Procs :
        ev[p] = "turn_err" =>
            /\ pc[p] = "Reading"
            /\ ~result[p].ok
            /\ messages[p] = pre[p]
            /\ file = preFile[p]

C1_Witness ==
    /\ ev[1] = "turn_err"
    /\ Len(pre[1]) = 2
    /\ messages[1] = pre[1]
    /\ preFile[1].exists
    /\ resp[1].kind = "status"

\* C2: for a chat line L entered with transcript T the API is called with
\* T + [user L]; on success with reply R the transcript becomes
\* T + [user L, assistant R], and when the save succeeds the file holds
\* exactly that transcript.
C2_SuccessfulTurn ==
    \A p \in Procs :
        /\ ev[p] = "turn_pending" =>
            /\ pc[p] = "Processing"
            /\ request[p].sent
            /\ request[p].messages = pre[p] \o <<UserMsg(p)>>
        /\ ev[p] = "turn_ok" =>
            /\ result[p].ok
            /\ request[p].messages = pre[p] \o <<UserMsg(p)>>
            /\ messages[p] =
                 pre[p] \o <<UserMsg(p), [role |-> AssistantRole, content |-> result[p].text]>>
            /\ saveRes[p] = "ok" => HoldsTranscript /\ Persisted = messages[p]

C2_Witness ==
    /\ ev[1] = "turn_ok"
    /\ saveRes[1] = "ok"
    /\ Len(pre[1]) = 2
    /\ Len(messages[1]) = 4
    /\ line[1] = <<"\"", "\\">>
    /\ Persisted = messages[1]

\* C3: after a clear command the persisted transcript is empty, whatever it
\* held before, and the session is still in Reading.
C3_ClearEmptiesStore ==
    \A p \in Procs :
        ev[p] = "clear" =>
            /\ pc[p] = "Reading"
            /\ LoadChatHistory(file, "ok") = <<>>

\* C4: a failed save inside start_chat (after a successful turn or on clear)
\* never ends the session: the loop is in Reading with its in-memory
\* transcript intact.
C4_SaveFailureNotFatal ==
    \A p \in Procs :
        saveRes[p] = "err" =>
            /\ pc[p] = "Reading"
            /\ exit[p] = -1
            /\ ev[p] = "clear" => messages[p] = <<>>
            /\ ev[p] = "turn_ok" => Len(messages[p]) = Len(pre[p]) + 2

\* C5: a load_chat_history that reads the file left by a successful
\* save_chat_history(T), with no write in between, returns T; a load when
\* there is no file returns the empty transcript.
C5_SaveLoadRoundTrip ==
    [][\A q \in Procs :
        (pc[q] = "open" /\ pc'[q] = "Reading") =>
            /\ (saved.valid /\ loadRes'[q] = "ok") => messages'[q] = saved.t
            /\ ~file.exists => messages'[q] = <<>>]_vars

C5_Witness ==
    /\ saved.valid
    /\ Len(saved.t) = 4
    /\ saved.t[3].content = <<"\"", "\\">>
    /\ saveRes[1] = "ok"
    /\ pc[2] = "Reading"
    /\ ev[2] = "none"
    /\ loadRes[2] = "ok"
    /\ messages[2] = saved.t

\* the commit runner's case of C6: `git diff --cached` succeeds with an empty
\* result and `git diff` succeeds with a non-empty patch
StagedEmptyUnstagedPatch ==
    /\ git.staged.spawn /\ git.staged.success /\ git.staged.utf8
    /\ git.staged.out = <<>>
    /\ git.unstaged.spawn /\ git.unstaged.success /\ git.unstaged.utf8
    /\ Trim(git.unstaged.out) # <<>>

\* ANTHROPIC_API_KEY is missing, unreadable or empty and the config file
\* gives no non-empty api_key in its place
NoCredential ==
    \/ environ.env.kind = "ok" /\ environ.env.val = ""
    \/ /\ environ.env.kind # "ok"
       /\ ~(environ.cfg.kind = "json" /\ environ.cfg.has_key /\ environ.cfg.api_key # "")

\* C6: when the staged diff is empty and the unstaged diff is a non-empty
\* patch, the commit runner goes on with the unstaged diff and (given a
\* credential) calls the API with a prompt that contains it.
C6_FallsBackToUnstaged ==
    \A p \in Procs :
        (cmd[p] = "commit" /\ StagedEmptyUnstagedPatch /\ pc[p] # "diff") =>
            /\ diff[p] = git.unstaged.out
            /\ (pc[p] = "done" /\ ~NoCredential) =>
                 /\ request[p].sent
                 /\ request[p].messages =
                      <<[role |-> UserRole, content |-> PromptTemplate \o git.unstaged.out]>>

\* C7: when the staged and the unstaged diff are both empty or white space
\* only, the commit runner ends with a non-zero status straight from the
\* diff step and never calls the API.
C7_NoChangesNoCall ==
    \A p \in Procs :
        (cmd[p] = "commit" /\ Trim(git.staged.out) = <<>> /\ Trim(git.unstaged.out) = <<>>) =>
            /\ ~request[p].sent
            /\ ncalls[p] = 0
            /\ pc[p] \in {"diff", "done"}
            /\ pc[p] = "done" => exit[p] = 1

C7_Witness ==
    /\ cmd[1] = "commit"
    /\ git.staged.success
    /\ git.staged.out = <<" ", "\n">>
    /\ git.unstaged.success
    /\ git.unstaged.out = <<>>
    /\ pc[1] = "done"
    /\ exit[1] = 1
    /\ ncalls[1] = 0

\* p has passed AnthropicClient::new successfully
HasClient(p) == pc[p] \in {"open", "send", "wait", "Reading", "Processing"}

\* C8: when the environment variable and the config file both give a
\* non-empty key, the client holds the key of the environment.
C8_EnvironmentPreferred ==
    \A p \in Procs :
        ( /\ environ.env.kind = "ok" /\ environ.env.val # ""
          /\ environ.cfg.kind = "json" /\ environ.cfg.has_key /\ environ.cfg.api_key # "" ) =>
            /\ HasClient(p) => api_key[p] = environ.env.val
            /\ request[p].sent => request[p].key = environ.env.val
            /\ api_key[p] \in {"", environ.env.val}
            /\ (pc[p] = "done" /\ cmd[p] = "gen") => request[p].sent

C8_Witness ==
    /\ environ.env.val = "sk-env"
    /\ environ.cfg.api_key = "sk-cfg"
    /\ pc[1] = "Processing"
    /\ api_key[1] = "sk-env"
    /\ request[1].key = "sk-env"

\* C9: AnthropicClient::new gives a client with a non-empty credential or
\* fails: no request is ever posted with an empty credential, and when no
\* credential can be resolved the command ends with an error before any call.
C9_NoEmptyCredential ==
    \A p \in Procs :
        /\ HasClient(p) => api_key[p] # ""
        /\ request[p].sent => request[p].key # ""
        /\ NoCredential =>
            /\ ~request[p].sent
            /\ ncalls[p] = 0
            /\ pc[p] \in {"idle", "diff", "new", "done"}
            /\ pc[p] = "done" => exit[p] = 1

C9_Witness ==
    /\ NoCredential
    /\ environ.env.kind = "notunicode"
    /\ environ.cfg.kind = "json"
    /\ cmd[1] = "gen"
    /\ pc[1] = "done"
    /\ exit[1] = 1
    /\ ncalls[1] = 0

\* C10: for a success status and a body with a content-block list,
\* send_message succeeds with the empty string when the list is empty and
\* with the text of the first block when it is not; the session stores that
\* text as the assistant message.
C10_FirstBlockOrEmpty ==
    \A p \in Procs :
        (resp[p].kind = "status" /\ resp[p].success /\ resp[p].body.shape = "content") =>
            /\ result[p].ok
            /\ resp[p].body.content = <<>> => result[p].text = <<>>
            /\ resp[p].body.content # <<>> => result[p].text = resp[p].body.content[1].text
            /\ ev[p] = "turn_ok" => messages[p][Len(messages[p])].content = result[p].text

C10_Witness ==
    /\ resp[1].kind = "status"
    /\ resp[1].success
    /\ resp[1].body.shape = "content"
    /\ resp[1].body.content = <<>>
    /\ result[1].ok
    /\ result[1].text = <<>>
    /\ ev[1] = "turn_ok"
    /\ messages[1][Len(messages[1])] = [role |-> AssistantRole, content |-> <<>>]

\* C11: load_chat_history never fails its caller: with a missing file, an
\* unreadable file, an unresolvable data directory or malformed content it
\* returns the empty transcript, and start_chat goes on to Reading; the only
\* way start_chat ends at this point is Editor::new failing, before the load.
C11_LoadNeverFails ==
    [][\A p \in Procs :
        (pc[p] = "open" /\ pc'[p] # "open") =>
            \/ /\ pc'[p] = "Reading"
               /\ exit'[p] = -1
               /\ loadRes'[p] # "none"
               /\ ( \/ ~file.exists
                    \/ ~FromStr(file.content).ok
                    \/ loadRes'[p] \in {"path_err", "read_err", "missing"} )
                  => messages'[p] = <<>>
            \/ /\ pc'[p] = "done"
               /\ loadRes'[p] = "none"
               /\ file' = file]_vars

C11_Witness ==
    /\ pc[1] = "Reading"
    /\ ev[1] = "none"
    /\ loadRes[1] = "ok"
    /\ file.exists
    /\ ~FromStr(file.content).ok
    /\ messages[1] = <<>>

\* what holds of a process running `gen` at every moment
GenRunner(p) ==
    /\ ncalls[p] <= 1
    /\ request[p].sent => request[p].messages = <<[role |-> UserRole, content |-> arg[p]]>>
    /\ loadRes[p] = "none"
    /\ saveRes[p] = "none"
    /\ messages[p] = <<>>
    /\ (pc[p] = "done" /\ ~NoCredential) => ncalls[p] = 1 /\ nreplies[p] = 1
    /\ (pc[p] = "done" /\ nreplies[p] = 1 /\ result[p].ok) =>
          exit[p] = 0 /\ printed[p] = result[p].text
    /\ (pc[p] = "done" /\ nreplies[p] = 1 /\ ~result[p].ok) =>
          exit[p] = 1 /\ printed[p] = <<"<none>">>
    /\ exit[p] = 0 => nreplies[p] = 1 /\ result[p].ok

\* C12: the `gen` runner posts exactly one request, whose transcript is the
\* single user message given; it never reads or writes the transcript file;
\* it ends with status 0 after printing the reply, and with status 1 when
\* the call fails.
C12_GenOneShot ==
    [][\A p \in Procs :
        cmd[p] = "gen" =>
            /\ GenRunner(p)'
            /\ pc'[p] # pc[p] => file' = file /\ saved' = saved]_vars

C12_Witness ==
    /\ cmd[1] = "gen"
    /\ arg[1] = <<"h", "i">>
    /\ pc[1] = "done"
    /\ exit[1] = 0
    /\ ncalls[1] = 1
    /\ printed[1] = <<"o", "k">>
    /\ file.exists
    /\ loadRes[1] = "none"

\* C13: quit, exit, an interrupt and end-of-input end the session with no
\* API call and no write to the transcript file, which stays as the last
\* save left it; a terminated process takes no further step.
C13_TerminatingInputs ==
    [][\A p \in Procs :
        /\ ( /\ pc[p] = "Reading"
             /\ \/ line'[p] \in {QuitCmd, ExitCmd}
                \/ ev'[p] \in {"interrupted", "eof"} ) =>
              /\ pc'[p] = "done"
              /\ exit'[p] = 0
              /\ messages'[p] = messages[p]
              /\ ncalls'[p] = ncalls[p]
              /\ request'[p] = request[p]
              /\ file' = file
              /\ saved' = saved
        /\ pc[p] = "done" =>
              /\ pc'[p] = "done"
              /\ exit'[p] = exit[p]
              /\ messages'[p] = messages[p]
              /\ ncalls'[p] = ncalls[p]
              /\ request'[p] = request[p]
              /\ (\A q \in Procs : pc[q] \in {"done", "idle"}) => file' = file]_vars

C13_Witness ==
    /\ pc[1] = "done"
    /\ exit[1] = 0
    /\ line[1] = ExitCmd
    /\ ev[1] = "quit"
    /\ ncalls[1] = 1
    /\ nreplies[1] = 1
    /\ Len(messages[1]) = 2
    /\ HoldsTranscript
    /\ Persisted = messages[1]
    /\ file = preFile[1]

\* C14: an input line that is empty after trimming leaves the session in
\* Reading, the in-memory transcript and the transcript file unchanged, and
\* posts no request.
C14_EmptyLine ==
    [][\A p \in Procs :
        ( /\ pc[p] = "Reading"
          /\ line'[p] = <<>>
          /\ ev'[p] \notin {"none", "interrupted", "eof", "error"}
          /\ <<ev[p], pre[p], preFile[p], line[p], pc[p]>>
               # <<ev'[p], pre'[p], preFile'[p], line'[p], pc'[p]>> ) =>
            /\ ev'[p] = "empty"
            /\ pc'[p] = "Reading"
            /\ exit'[p] = -1
            /\ messages'[p] = messages[p]
            /\ ncalls'[p] = ncalls[p]
            /\ request'[p] = request[p]
            /\ file' = file
            /\ saved' = saved]_vars

C14_Witness ==
    /\ ev[1] = "empty"
    /\ line[1] = <<>>
    /\ pc[1] = "Reading"
    /\ ncalls[1] = 1
    /\ Len(messages[1]) = 2
    /\ messages[1] = pre[1]
    /\ file = preFile[1]
    /\ file.exists

\* the requests of p that have been posted and have not returned
InFlight(p) == ncalls[p] - nreplies[p]

\* C15: a process has at most one request in flight, and has one exactly
\* while it waits for it; while the request is in flight no line is read and
\* no second request is posted; a chat line posts exactly one request; when
\* the request returns, with a reply or an error, the session is back in
\* Reading with no retry.
C15_OneCallAtATime ==
    [][\A p \in Procs :
        /\ InFlight(p)' \in {0, 1}
        /\ InFlight(p)' = 1 <=> pc'[p] \in {"Processing", "wait"}
        /\ pc[p] = "Processing" =>
              /\ line'[p] = line[p]
              /\ pre'[p] = pre[p]
              /\ ncalls'[p] = ncalls[p]
              /\ nreplies'[p] \in {nreplies[p], nreplies[p] + 1}
        /\ (pc[p] = "Processing" /\ nreplies'[p] # nreplies[p]) => pc'[p] = "Reading"
        /\ (pc[p] = "Reading" /\ ev'[p] = "turn_pending") =>
              /\ ncalls'[p] = ncalls[p] + 1
              /\ pc'[p] = "Processing"
        /\ (pc[p] = "Reading" /\ pc'[p] = "Reading") => ncalls'[p] = ncalls[p]]_vars

C15_Witness ==
    /\ pc[1] = "Reading"
    /\ ev[1] = "turn_err"
    /\ ncalls[1] = 2
    /\ nreplies[1] = 2
    /\ Len(messages[1]) = 2

\* C16: for a non-success status send_message returns no reply text: it
\* fails, with an error that carries the raw response body; in the session
\* that turn is rolled back and no assistant message is appended.
C16_NonSuccessIsError ==
    \A p \in Procs :
        (resp[p].kind \in {"status", "body_lost"} /\ ~resp[p].success) =>
            /\ ~result[p].ok
            /\ result[p].text = <<>>
            /\ resp[p].kind = "status" =>
                  result[p].err = "API request failed: " \o resp[p].body.raw
            /\ ev[p] # "turn_ok"
            /\ ev[p] = "turn_err" => pc[p] = "Reading" /\ messages[p] = pre[p]
            /\ exit[p] # 0 \/ cmd[p] = "start"

C16_Witness ==
    /\ resp[1].kind = "status"
    /\ ~resp[1].success
    /\ resp[1].body.raw = "json1"
    /\ result[1].err = "API request failed: json1"
    /\ ev[1] = "turn_err"
    /\ Len(pre[1]) = 2
    /\ messages[1] = pre[1]

\* C17: when two sessions share the transcript file the last writer wins:
\* after a successful save the file holds exactly the in-memory transcript
\* of the process that saved, whatever another process had written since
\* the saver loaded its history.
C17_LastWriterWins ==
    [][(saved' # saved /\ saved'.last = "ok") =>
          /\ file'.exists
          /\ FromStr(file'.content).ok
          /\ FromStr(file'.content).val = messages'[saved'.by]
          /\ file' = FileOf(ToStringPretty(messages'[saved'.by]))]_vars

C17_Witness ==
    /\ loadRes[1] = "ok" /\ loadRes[2] = "ok"
    /\ Len(loaded[1]) = 2 /\ loaded[2] = loaded[1]
    /\ ev[2] = "turn_ok" /\ saveRes[2] = "ok"
    /\ Len(messages[2]) = 4
    /\ ev[1] = "clear" /\ saveRes[1] = "ok"
    /\ saved.by = 1 /\ saved.last = "ok"
    /\ HoldsTranscript
    /\ Persisted = <<>>

\* user, assistant, user, assistant, ...: even length, strictly alternating
Alternates(t) ==
    /\ Len(t) % 2 = 0
    /\ \A i \in 1..Len(t) : t[i].role = IF i % 2 = 1 THEN UserRole ELSE AssistantRole

\* the transcript a file holds for a reader: empty when there is no file or
\* its text is not a transcript
PersistedIn(f) ==
    IF ~f.exists THEN <<>>
    ELSE LET r == FromStr(f.content) IN IF r.ok THEN r.val ELSE <<>>

\* C18 as stated: if the transcript loaded at startup is empty or strictly
\* alternates, then the in-memory transcript at every Reading state and the
\* persisted transcript at every moment are of even length and strictly
\* alternate.
C18_AlternatesFromLoaded ==
    \A p \in Procs :
        (cmd[p] = "start" /\ loadRes[p] # "none" /\ Alternates(loaded[p])) =>
            /\ pc[p] = "Reading" => Alternates(messages[p])
            /\ Alternates(PersistedIn(file))

\* C18, amended: if the transcript loaded at startup and the transcript the
\* file held at startup are each empty or strictly alternating, then the
\* in-memory transcript at every Reading state and the persisted transcript
\* at every moment are of even length and strictly alternate.
C18_AlternatesFromStart ==
    \A p \in Procs :
        ( /\ cmd[p] = "start" /\ loadRes[p] # "none"
          /\ Alternates(loaded[p])
          /\ Alternates(startFile[p].t) ) =>
            /\ pc[p] = "Reading" => Alternates(messages[p])
            /\ Alternates(PersistedIn(file))

C18_Witness ==
    /\ loadRes[1] = "ok"
    /\ Len(loaded[1]) = 2
    /\ pc[1] = "Reading"
    /\ ev[1] = "turn_err"
    /\ ncalls[1] = 2
    /\ Len(messages[1]) = 4
    /\ Alternates(messages[1])
    /\ PersistedIn(file) = messages[1]

\* a is a prefix of b
IsPrefix(a, b) == Len(a) <= Len(b) /\ SubSeq(b, 1, Len(a)) = a

\* the file is as a failed save left it, partly written
PartlyWritten == saved.by # 0 /\ ~saved.valid

\* C19 as stated: in a single session that starts from a well-formed file,
\* with the file not left partly written by a save, at every Reading state
\* the persisted transcript is a prefix of the in-memory transcript, and
\* equals it when the most recent save attempt succeeded.
C19_PersistedIsPrefix ==
    \A p \in Procs :
        ( /\ cmd[p] = "start" /\ pc[p] = "Reading"
          /\ startFile[p].wf
          /\ ~PartlyWritten ) =>
            /\ IsPrefix(PersistedIn(file), messages[p])
            /\ saved.last = "ok" => PersistedIn(file) = messages[p]

\* C19, amended: in a single session that starts from a well-formed file
\* and whose startup load returned the transcript that file held, with the
\* file not left partly written by a save, at every Reading state the
\* persisted transcript is a prefix of the in-memory transcript, and equals
\* it when the most recent save attempt succeeded.
C19_PersistedIsPrefixOfLoaded ==
    \A p \in Procs :
        ( /\ cmd[p] = "start" /\ pc[p] = "Reading"
          /\ startFile[p].wf
          /\ ~PartlyWritten
          /\ loaded[p] = startFile[p].t ) =>
            /\ IsPrefix(PersistedIn(file), messages[p])
            /\ saved.last = "ok" => PersistedIn(file) = messages[p]

C19_Witness ==
    /\ pc[1] = "Reading"
    /\ loadRes[1] = "ok"
    /\ Len(loaded[1]) = 2
    /\ startFile[1].wf
    /\ loaded[1] = startFile[1].t
    /\ ev[1] = "turn_ok"
    /\ saveRes[1] = "err"
    /\ ~PartlyWritten
    /\ ncalls[1] = 2
    /\ Len(messages[1]) = 6
    /\ Len(PersistedIn(file)) = 4
    /\ IsPrefix(PersistedIn(file), messages[1])

\* C20: when ANTHROPIC_API_KEY is set, the config file plays no part: the
\* client holds the environment value, and when that value is the empty
\* string AnthropicClient::new fails, whatever api_key the config file holds.
C20_EmptyEnvironmentKeyFails ==
    \A p \in Procs :
        environ.env.kind = "ok" =>
            /\ HasClient(p) => api_key[p] = environ.env.val
            /\ environ.env.val = "" =>
                  /\ ~HasClient(p)
                  /\ api_key[p] = ""
                  /\ ~request[p].sent
                  /\ pc[p] \in {"idle", "diff", "new", "done"}
                  /\ pc[p] = "done" => exit[p] = 1

C20_Witness ==
    /\ environ.env.kind = "ok"
    /\ environ.env.val = ""
    /\ environ.cfg.api_key = "sk-cfg"
    /\ cmd[1] = "start"
    /\ pc[1] = "done"
    /\ exit[1] = 1
    /\ ncalls[1] = 0
    /\ loadRes[1] = "none"

====
